---------------------------- MODULE Spec2Model ----------------------------
(***************************************************************************)
(* The chess session coordinator of src/app.js: one ChessGame object (the  *)
(* rules-engine position, the two seats, the two remaining times, the      *)
(* scheduled countdown intervals) and the socket.io handlers that act on   *)
(* it.  Node's event loop runs every handler and every interval callback   *)
(* to completion, so each handler is one atomic action.                    *)
(*                                                                         *)
(* The rules engine (chess.js) is outside the repository.  Its position is *)
(* abstracted to the number of accepted moves (which fixes the side to     *)
(* move) and the engine's verdict on the position; what a requested move   *)
(* does is an input of the move event.  The model does not play chess: any *)
(* verdict may follow any legal move, and the handlers read nothing of the *)
(* position but the side to move and the verdict.                          *)
(***************************************************************************)
EXTENDS Integers, Sequences, FiniteSets

\* Bounds of the model.
MaxConns == 3          \* socket ids ever handed out
MaxPly == 2            \* accepted moves per game
InitialSeconds == 2    \* per-side duration; stands for the 600 of the source

Null == 0
Conns == 1..MaxConns
Colors == {"white", "black"}

VARIABLES
  chess,           \* game.chess: the rules engine's position
  players,         \* game.players: seat -> socket id or Null
  timers,          \* game.timers: seat -> remaining seconds
  timerIntervals,  \* keys of game.timerIntervals: sides with a scheduled interval
  sockets,         \* connected sockets: socket id -> socket.playerRole
  nextId,          \* the id the next connecting socket gets (ids are never reused)
  out,             \* the messages emitted by the event just handled, in order
  last,            \* the event just handled, with the move payload the handler read
  concluded,       \* history: a gameOver or timeUp was broadcast since reset
  joined           \* history: connections since reset, counted up to 2

vars == <<chess, players, timers, timerIntervals, sockets, nextId, out, last,
          concluded, joined>>

Connected == DOMAIN sockets

----------------------------------------------------------------------------
\* The rules engine, as the handlers use it.

InitialPosition == [ply |-> 0, over |-> "none"]

Turn(pos) == IF pos.ply % 2 = 0 THEN "w" ELSE "b"

InCheckmate(pos) == pos.over = "checkmate"

InStalemate(pos) == pos.over = "stalemate"

\* chess.js counts a stalemate as a draw as well
InDraw(pos) == pos.over \in {"draw", "stalemate"}

Fen(pos) == [turn |-> Turn(pos), fullmove |-> (pos.ply \div 2) + 1, over |-> pos.over]

MoveKinds == {"illegal", "quiet", "mate", "stalemate", "draw"}

\* A move event's payload: a move object, or something that is no object.
Malformed == [kind |-> "malformed", promotion |-> ""]
MoveRequests ==
  [kind : MoveKinds, promotion : {""}]
    \cup {[kind |-> "quiet", promotion |-> "n"], Malformed}

\* The payload slot of an event that carries no move.
NoMove == [kind |-> "none", promotion |-> ""]

WellFormed(move) == move.kind # "malformed"

\* chess.move(m): no move is legal in a checkmated or stalemated position;
\* a position drawn by rule can still be played on.
ChessMove(pos, move) ==
  IF move.kind = "illegal" \/ InCheckmate(pos) \/ InStalemate(pos)
  THEN [ok |-> FALSE, pos |-> pos]
  ELSE [ok |-> TRUE,
        pos |-> [ply |-> pos.ply + 1,
                 over |-> CASE move.kind = "mate" -> "checkmate"
                            [] move.kind = "stalemate" -> "stalemate"
                            [] move.kind = "draw" -> "draw"
                            [] OTHER -> "none"]]

----------------------------------------------------------------------------
\* Emission.  A message names its event, its recipients and its payload.

IoEmit(msg) == [msg EXCEPT !.to = Connected]

SocketEmit(c, msg) == [msg EXCEPT !.to = {c}]

BroadcastEmit(c, msg) == [msg EXCEPT !.to = Connected \ {c}]

CapitalOfOther(color) == IF color = "white" THEN "Black" ELSE "White"

Capital(color) == IF color = "white" THEN "White" ELSE "Black"

Letter(color) == IF color = "white" THEN "w" ELSE "b"

----------------------------------------------------------------------------
\* class ChessGame

StopTimers == {}

StartTimerNoStop(color) == timerIntervals \cup {color}

StartTimer(color) ==
  LET stopped == StopTimers
  IN  stopped \cup {color}

InitialTimers == [white |-> InitialSeconds, black |-> InitialSeconds]

NoPlayers == [white |-> Null, black |-> Null]

ResetKeepsPlayers == players

ResetPlayers == NoPlayers

Init ==
  /\ chess = InitialPosition
  /\ players = NoPlayers
  /\ timers = InitialTimers
  /\ timerIntervals = {}
  /\ sockets = <<>>
  /\ nextId = 1
  /\ out = <<>>
  /\ last = [ev |-> "boot", conn |-> Null, move |-> NoMove]
  /\ concluded = FALSE
  /\ joined = 0

Event(ev, c) == [ev |-> ev, conn |-> c, move |-> NoMove]

\* The callback with its expiry test off by one (< 0 for <= 0).
TimerTickLate(color) ==
  /\ color \in timerIntervals
  /\ timers' = [timers EXCEPT ![color] = @ - 1]
  /\ LET update == IoEmit([ev |-> "timerUpdate", to |-> {}, timers |-> timers'])
         timeUp == IoEmit([ev |-> "timeUp", to |-> {}, color |-> Letter(color)])
     IN  IF timers'[color] < 0
         THEN /\ timerIntervals' = StopTimers
              /\ out' = <<update, timeUp>>
              /\ concluded' = TRUE
         ELSE /\ out' = <<update>>
              /\ UNCHANGED <<timerIntervals, concluded>>
  /\ last' = Event("tick", Null)
  /\ UNCHANGED <<chess, players, sockets, nextId, joined>>

\* The interval callback of startTimer(color).
TimerTick(color) ==
  /\ color \in timerIntervals
  /\ timers' = [timers EXCEPT ![color] = @ - 1]
  /\ LET update == IoEmit([ev |-> "timerUpdate", to |-> {}, timers |-> timers'])
         timeUp == IoEmit([ev |-> "timeUp", to |-> {}, color |-> Letter(color)])
     IN  IF timers'[color] <= 0
         THEN /\ timerIntervals' = StopTimers
              /\ out' = <<update, timeUp>>
              /\ concluded' = TRUE
         ELSE /\ out' = <<update>>
              /\ UNCHANGED <<timerIntervals, concluded>>
  /\ last' = Event("tick", Null)
  /\ UNCHANGED <<chess, players, sockets, nextId, joined>>

\* app.get('/reset'): game.reset(), then the broadcast of the fresh state.
ResetRoute ==
  /\ chess' = InitialPosition
  /\ timers' = InitialTimers
  /\ timerIntervals' = StopTimers
  /\ players' = ResetPlayers
  /\ out' = <<IoEmit([ev |-> "reset", to |-> {}, fen |-> Fen(chess'),
                      timers |-> timers'])>>
  /\ last' = Event("reset", Null)
  /\ concluded' = FALSE
  /\ joined' = 0
  /\ UNCHANGED <<sockets, nextId>>

----------------------------------------------------------------------------
\* io.on('connection'): role assignment, then the current state to the socket.

AssignSpectatorAfterFirstTwo ==
  IF joined = 0 THEN "w" ELSE IF joined = 1 THEN "b" ELSE "spectator"

AssignAlwaysWhite == "w"

AssignRole ==
  IF players.white = Null THEN "w"
  ELSE IF players.black = Null THEN "b"
  ELSE "spectator"

OnConnection ==
  /\ nextId <= MaxConns
  /\ LET c == nextId
         role == AssignRole
         state == [ev |-> "gameState", to |-> {c}, fen |-> Fen(chess),
                   timers |-> timers]
     IN  /\ sockets' = [s \in Connected \cup {c} |->
                          IF s = c THEN role ELSE sockets[s]]
         /\ players' = CASE role = "w" -> [players EXCEPT !.white = c]
                         [] role = "b" -> [players EXCEPT !.black = c]
                         [] OTHER -> players
         /\ timerIntervals' = IF role = "b" THEN StartTimer("white")
                              ELSE timerIntervals
         /\ out' = IF role = "spectator"
                   THEN <<[ev |-> "spectatorRole", to |-> {c}], state>>
                   ELSE <<[ev |-> "playerRole", to |-> {c}, role |-> role], state>>
         /\ last' = Event("connection", c)
  /\ nextId' = nextId + 1
  /\ joined' = IF joined < 2 THEN joined + 1 ELSE joined
  /\ UNCHANGED <<chess, timers, concluded>>

----------------------------------------------------------------------------
\* socket.on('move')

TurnColor == IF Turn(chess) = "w" THEN "white" ELSE "black"

AnyoneAllowed(c) == TRUE

Allowed(c) == c = players[TurnColor]

ServerMove(move) ==
  [kind |-> move.kind,
   promotion |-> IF move.promotion = "" THEN "q" ELSE move.promotion]

SameColor(turnColor) == turnColor

NextColor(turnColor) == IF turnColor = "white" THEN "black" ELSE "white"

InvalidMoveToAll(c, text) ==
  <<IoEmit([ev |-> "invalidMove", to |-> {}, text |-> text])>>

InvalidMove(c, text) ==
  <<SocketEmit(c, [ev |-> "invalidMove", to |-> {}, text |-> text])>>

GameOver(text) == IoEmit([ev |-> "gameOver", to |-> {}, text |-> text])

OnMove(c, move) ==
  /\ c \in Connected
  /\ move.kind \in {"quiet", "mate", "stalemate", "draw"} => chess.ply < MaxPly
  \* the handler reads the payload only once the sender has passed the seat check
  /\ last' = [ev |-> "move", conn |-> c,
              move |-> IF Allowed(c) THEN move ELSE NoMove]
  /\ UNCHANGED <<players, timers, sockets, nextId, joined>>
  /\ LET turnColor == TurnColor
     IN
     IF ~Allowed(c)
     THEN /\ out' = <<>>
          /\ UNCHANGED <<chess, timerIntervals, concluded>>
     ELSE IF ~WellFormed(move)
     THEN \* move.from throws; the catch block reports err.message
          /\ out' = InvalidMove(c, "TypeError")
          /\ UNCHANGED <<chess, timerIntervals, concluded>>
     ELSE
     LET serverMove == ServerMove(move)
         result == ChessMove(chess, serverMove)
     IN
     IF ~result.ok
     THEN /\ out' = InvalidMove(c, "Invalid move")
          /\ UNCHANGED <<chess, timerIntervals, concluded>>
     ELSE
     LET nextColor == NextColor(turnColor)
         started == StartTimer(nextColor)
         moved == IoEmit([ev |-> "move", to |-> {}, move |-> serverMove,
                          fen |-> Fen(result.pos), timers |-> timers])
     IN
     /\ chess' = result.pos
     /\ IF InCheckmate(result.pos)
        THEN /\ timerIntervals' = StopTimers
             /\ out' = <<moved, GameOver(<<"Checkmate!", Capital(turnColor), "wins">>)>>
             /\ concluded' = TRUE
        ELSE IF InStalemate(result.pos)
        THEN /\ timerIntervals' = StopTimers
             /\ out' = <<moved, GameOver(<<"Stalemate!">>)>>
             /\ concluded' = TRUE
        ELSE IF InDraw(result.pos)
        THEN /\ timerIntervals' = StopTimers
             /\ out' = <<moved, GameOver(<<"Draw!">>)>>
             /\ concluded' = TRUE
        ELSE /\ timerIntervals' = started
             /\ out' = <<moved>>
             /\ UNCHANGED concluded

----------------------------------------------------------------------------
\* socket.on('offerDraw'), socket.on('acceptDraw'), socket.on('resign')

OnOfferDraw(c) ==
  /\ c \in Connected
  /\ out' = <<BroadcastEmit(c, [ev |-> "drawOffered", to |-> {}])>>
  /\ last' = Event("offerDraw", c)
  /\ UNCHANGED <<chess, players, timers, timerIntervals, sockets, nextId,
                 concluded, joined>>

OnAcceptDraw(c) ==
  /\ c \in Connected
  /\ timerIntervals' = StopTimers
  /\ out' = <<GameOver(<<"Draw by agreement">>)>>
  /\ last' = Event("acceptDraw", c)
  /\ concluded' = TRUE
  /\ UNCHANGED <<chess, players, timers, sockets, nextId, joined>>

ResigningColorByTurn(c) == Capital(TurnColor)

ResigningColor(c) ==
  IF c = players.white THEN "White"
  ELSE IF c = players.black THEN "Black"
  ELSE "Player"

Winner(resigningColor) ==
  IF resigningColor = "White" THEN "Black"
  ELSE IF resigningColor = "Black" THEN "White"
  ELSE "Opponent"

OnResign(c) ==
  /\ c \in Connected
  /\ timerIntervals' = StopTimers
  /\ LET resigningColor == ResigningColor(c)
         winner == Winner(resigningColor)
     IN  out' = <<GameOver(<<resigningColor, "resigns.", winner, "wins!">>)>>
  /\ last' = Event("resign", c)
  /\ concluded' = TRUE
  /\ UNCHANGED <<chess, players, timers, sockets, nextId, joined>>

----------------------------------------------------------------------------
\* socket.on('disconnect'): the socket has left before the handler runs.

OnDisconnect(c) ==
  /\ c \in Connected
  /\ sockets' = [s \in Connected \ {c} |-> sockets[s]]
  /\ LET gone(color) == [ev |-> "playerDisconnected", to |-> Connected \ {c},
                         color |-> color]
     IN  IF c = players.white
         THEN /\ players' = [players EXCEPT !.white = Null]
              /\ timerIntervals' = StopTimers
              /\ out' = <<gone("white")>>
         ELSE IF c = players.black
         THEN /\ players' = [players EXCEPT !.black = Null]
              /\ timerIntervals' = StopTimers
              /\ out' = <<gone("black")>>
         ELSE /\ out' = <<>>
              /\ UNCHANGED <<players, timerIntervals>>
  /\ last' = Event("disconnect", c)
  /\ UNCHANGED <<chess, timers, nextId, concluded, joined>>

----------------------------------------------------------------------------

Next ==
  \/ OnConnection
  \/ \E c \in Conns, move \in MoveRequests : OnMove(c, move)
  \/ \E c \in Conns : OnOfferDraw(c)
  \/ \E c \in Conns : OnAcceptDraw(c)
  \/ \E c \in Conns : OnResign(c)
  \/ \E c \in Conns : OnDisconnect(c)
  \/ \E color \in Colors : TimerTick(color)
  \/ ResetRoute

Spec == Init /\ [][Next]_vars

\* setInterval runs the callback of a scheduled interval every second for as
\* long as the interval stays scheduled.
FairSpec == Spec /\ WF_vars(\E color \in Colors : TimerTick(color))

----------------------------------------------------------------------------
\* Vocabulary of the properties.

Opponent(color) == CHOOSE other \in Colors : other # color

BothSeated == players.white # Null /\ players.black # Null

Ended(pos) == InCheckmate(pos) \/ InStalemate(pos) \/ InDraw(pos)

\* timeUp broadcasts since reset: each tick that leaves a time at 0 or below
\* sends one, and nothing but a tick lowers a time.
TimeUps(t) ==
  (IF t.white <= 0 THEN 1 - t.white ELSE 0) + (IF t.black <= 0 THEN 1 - t.black ELSE 0)

\* msgs holds timeUp(side) directly followed by a gameOver naming winner.
TimeUpThenGameOver(msgs, side, winner) ==
  \E i \in 1..(Len(msgs) - 1) :
    /\ msgs[i].ev = "timeUp" /\ msgs[i].color = Letter(side)
    /\ msgs[i + 1].ev = "gameOver"
    /\ \E k \in 1..(Len(msgs[i + 1].text) - 1) :
         /\ msgs[i + 1].text[k] = Capital(winner)
         /\ msgs[i + 1].text[k + 1] \in {"wins", "wins!"}

----------------------------------------------------------------------------
\* C1: a move event from a connection that does not hold the seat of the
\* side to move leaves position, remaining times, running clock and seats
\* as they were and emits nothing.
C1_UnseatedMoveChangesNothing ==
  [][(last'.ev = "move" /\ last'.conn # players[TurnColor])
       => (UNCHANGED <<chess, timers, timerIntervals, players>> /\ out' = <<>>)]_vars

\* The other player has just tried to move out of turn in a running game.
C1_Witness ==
  /\ last.ev = "move"
  /\ last.conn = players[Opponent(TurnColor)]
  /\ last.conn # players[TurnColor]
  /\ last.move = NoMove
  /\ chess.ply > 0
  /\ timerIntervals = {TurnColor}
  /\ out = <<>>

\* C2: a move of the seated side to move that the rules engine rejects
\* leaves position, remaining times and running clock unchanged and yields
\* exactly one message, an invalidMove sent to the requester alone.
C2_RejectedMoveOnlyNotifiesRequester ==
  [][(/\ last'.ev = "move"
      /\ last'.conn = players[TurnColor]
      /\ WellFormed(last'.move)
      /\ ~ChessMove(chess, ServerMove(last'.move)).ok)
       => (/\ UNCHANGED <<chess, timers, timerIntervals>>
           /\ Len(out') = 1
           /\ out'[1].ev = "invalidMove"
           /\ out'[1].to = {last'.conn})]_vars

\* Black, to move with its clock running and white watching, was refused.
C2_Witness ==
  /\ last.ev = "move"
  /\ last.move.kind = "illegal"
  /\ last.conn = players.black
  /\ players.white \in Connected
  /\ TurnColor = "black"
  /\ timerIntervals = {"black"}
  /\ Len(out) = 1 /\ out[1].ev = "invalidMove" /\ out[1].to = {last.conn}

\* C3: after an accepted move that does not end the game the running clock
\* is the clock of the mover's opponent.
C3_ClockSwitchesToOpponent ==
  [][(last'.ev = "move" /\ chess' # chess /\ ~Ended(chess'))
       => timerIntervals' = {Opponent(TurnColor)}]_vars

\* Black has answered white's first move: white's clock runs again.
C3_Witness ==
  /\ last.ev = "move"
  /\ Len(out) = 1 /\ out[1].ev = "move"
  /\ chess.ply = 2
  /\ last.conn = players.black
  /\ timerIntervals = {"white"}

\* C4: at most one side has a scheduled countdown.
C4_AtMostOneClockRuns == Cardinality(timerIntervals) <= 1

\* An accepted move has just handed the countdown from white to black.
C4_Witness ==
  /\ last.ev = "move"
  /\ chess.ply = 1
  /\ timerIntervals = {"black"}
  /\ BothSeated

\* C5: once a move produces checkmate no clock runs until reset, and every
\* later move event leaves position, remaining times and running clock
\* unchanged.
C5_NoClockAfterCheckmate ==
  [][/\ InCheckmate(chess') => timerIntervals' = {}
     /\ (InCheckmate(chess) /\ last'.ev = "move")
          => UNCHANGED <<chess, timers, timerIntervals>>]_vars

\* C6: once the game is concluded every move event is refused until reset:
\* the position does not change and the move starts no clock.
C6_MovesRefusedAfterConclusion ==
  [][(concluded /\ last'.ev = "move")
       => (chess' = chess /\ timerIntervals' \subseteq timerIntervals)]_vars

\* C7: when a side's time reaches 0 in an active game the game is concluded
\* and timeUp(side) is broadcast, followed by a gameOver naming the opponent
\* as winner; no game sees a second timeUp.
C7_TimeUpOncePerGame ==
  [][/\ \A side \in Colors :
          (/\ last'.ev = "tick"
           /\ BothSeated /\ ~concluded
           /\ timers[side] > 0 /\ timers'[side] <= 0)
            => (/\ concluded'
                /\ timerIntervals' = {}
                /\ TimeUpThenGameOver(out', side, Opponent(side)))
     /\ TimeUps(timers') <= 1]_vars

\* C8: reset leaves both seats empty, both times at the initial duration,
\* no clock running and the initial position, and the next two connections
\* are assigned white and black.
C8_ResetRestoresInitialState ==
  [][/\ last'.ev = "reset"
          => (/\ players' = [white |-> Null, black |-> Null]
              /\ timers' = [white |-> InitialSeconds, black |-> InitialSeconds]
              /\ timerIntervals' = {}
              /\ chess' = InitialPosition)
     /\ (last.ev = "reset" /\ last'.ev = "connection")
          => (sockets'[last'.conn] = "w" /\ players'.white = last'.conn
              /\ players'.black = Null)
     /\ (/\ last.ev = "connection" /\ joined = 1
         /\ players.white = last.conn
         /\ last'.ev = "connection")
          => (sockets'[last'.conn] = "b" /\ players'.black = last'.conn
              /\ players'.white = last.conn)]_vars

\* Reset has cleared a game whose two players are still connected.
C8_Witness ==
  /\ last.ev = "reset"
  /\ \E a, b \in Connected : sockets[a] = "w" /\ sockets[b] = "b"
  /\ players = [white |-> Null, black |-> Null]
  /\ timers = [white |-> InitialSeconds, black |-> InitialSeconds]
  /\ timerIntervals = {}
  /\ chess = InitialPosition

\* C9 as stated: between resets the first connection is white, the second
\* black and every later one a spectator, also after a seat was vacated.
C9_LaterConnectionsAreSpectators ==
  [][last'.ev = "connection"
       => sockets'[last'.conn] =
            (IF joined = 0 THEN "w" ELSE IF joined = 1 THEN "b" ELSE "spectator")]_vars

\* C9 as amended: a connection is assigned white when the white seat is
\* empty, otherwise black when the black seat is empty, and spectator only
\* when both seats are held; a vacated seat goes to the next connection.
C9_RoleFollowsEmptySeats ==
  [][last'.ev = "connection"
       => LET c == last'.conn
          IN  /\ players.white = Null
                   => (/\ sockets'[c] = "w"
                       /\ players' = [players EXCEPT !.white = c]
                       /\ out'[1].ev = "playerRole" /\ out'[1].role = "w")
              /\ (players.white # Null /\ players.black = Null)
                   => (/\ sockets'[c] = "b"
                       /\ players' = [players EXCEPT !.black = c]
                       /\ out'[1].ev = "playerRole" /\ out'[1].role = "b")
              /\ BothSeated
                   => (/\ sockets'[c] = "spectator"
                       /\ players' = players
                       /\ out'[1].ev = "spectatorRole")]_vars

\* The third connection of a game has taken the white seat its holder left.
C9_Witness ==
  /\ last.ev = "connection"
  /\ last.conn = 3
  /\ joined = 2
  /\ players = [white |-> 3, black |-> 2]
  /\ sockets[3] = "w"
  /\ 1 \notin Connected

\* C10: while fewer than two seats are filled no clock runs and every move
\* event changes neither position nor clocks and emits nothing.
C10_NoPlayBeforeBothSeated ==
  [][/\ ~BothSeated' => timerIntervals' = {}
     /\ (~BothSeated /\ last'.ev = "move")
          => (UNCHANGED <<chess, timers, timerIntervals>> /\ out' = <<>>)]_vars

\* The spec's Active state: both seats held and nothing concluded.
Active == BothSeated /\ ~concluded

\* C11: a connect starts white's clock exactly when its role assignment is
\* the one that makes both seats filled, whichever colour it takes; any
\* other connect starts no clock.
C11_ClockStartsWhenSecondSeatFills ==
  [][last'.ev = "connection"
       => IF BothSeated' /\ ~BothSeated
          THEN timerIntervals' = {"white"}
          ELSE timerIntervals' = timerIntervals]_vars

\* C12: acceptDraw outside Active is a no-op that emits nothing; in Active
\* it stops the clock and broadcasts the draw-by-agreement gameOver.
C12_AcceptDrawOnlyWhenActive ==
  [][last'.ev = "acceptDraw"
       => IF Active
          THEN /\ timerIntervals' = {}
               /\ Len(out') = 1 /\ out'[1].ev = "gameOver"
               /\ out'[1].text = <<"Draw by agreement">>
          ELSE /\ out' = <<>>
               /\ UNCHANGED <<chess, players, timers, timerIntervals>>]_vars

\* C13: a seated connection's disconnect empties its seat, leaves the other
\* seat, the position and both times unchanged and broadcasts
\* playerDisconnected naming the side; no clock runs afterwards until
\* reset, whatever event follows (stated for the event that follows the
\* disconnect).
C13_NoClockAfterSeatedDisconnect ==
  [][/\ \A side \in Colors :
          (last'.ev = "disconnect" /\ last'.conn = players[side])
            => (/\ players' = [players EXCEPT ![side] = Null]
                /\ UNCHANGED <<chess, timers>>
                /\ timerIntervals' = {}
                /\ Len(out') = 1 /\ out'[1].ev = "playerDisconnected"
                /\ out'[1].color = side)
     /\ (last.ev = "disconnect" /\ out # <<>> /\ last'.ev # "reset")
          => timerIntervals' = {}]_vars

\* C14: whenever a clock runs, it is the clock of the side to move.
C14_RunningClockIsSideToMove ==
  timerIntervals # {} => timerIntervals = {TurnColor}

\* C15: both remaining times stay at 0 or above: starting the clock of a
\* side whose time is used up schedules no decrement.
C15_TimesNeverNegative ==
  timers.white >= 0 /\ timers.black >= 0

\* C16: a resign stops the clock and broadcasts one gameOver naming the
\* sender's seat as the resigning side (Player for a connection without a
\* seat) and the opposite side as winner; position, seats and remaining
\* times are unchanged.
C16_ResignNamesSenderSeat ==
  [][last'.ev = "resign"
       => LET c == last'.conn
              label == CASE c = players.white -> <<"White", "Black">>
                         [] c = players.black -> <<"Black", "White">>
                         [] OTHER -> <<"Player", "Opponent">>
          IN  /\ timerIntervals' = {}
              /\ Len(out') = 1
              /\ out'[1].ev = "gameOver"
              /\ out'[1].to = Connected
              /\ out'[1].text = <<label[1], "resigns.", label[2], "wins!">>
              /\ UNCHANGED <<chess, players, timers>>]_vars

\* Black has resigned on white's turn, with white's clock running before.
C16_Witness ==
  /\ last.ev = "resign"
  /\ last.conn = players.black
  /\ players.white # Null
  /\ TurnColor = "white"
  /\ chess.ply = 2
  /\ timerIntervals = {}
  /\ out[1].ev = "gameOver"
  /\ out[1].text = <<"Black", "resigns.", "White", "wins!">>

\* C17: an accepted move that leaves checkmate, stalemate or a rules-engine
\* draw ends with no clock running; the move broadcast is followed by
\* exactly one gameOver, which for checkmate names the mover as winner.
C17_TerminalMoveAnnouncedOnce ==
  [][(last'.ev = "move" /\ chess' # chess /\ Ended(chess'))
       => (/\ timerIntervals' = {}
           /\ Len(out') = 2
           /\ out'[1].ev = "move" /\ out'[1].to = Connected
           /\ out'[2].ev = "gameOver" /\ out'[2].to = Connected
           /\ InCheckmate(chess')
                => out'[2].text =
                     <<"Checkmate!",
                       IF Turn(chess) = "w" THEN "White" ELSE "Black",
                       "wins">>)]_vars

\* Black has just mated on its first move: the clocks are stopped and the
\* announcement names Black.
C17_Witness ==
  /\ last.ev = "move"
  /\ last.conn = players.black
  /\ players.white # Null
  /\ chess = [ply |-> 2, over |-> "checkmate"]
  /\ timerIntervals = {}
  /\ Len(out) = 2
  /\ out[2].ev = "gameOver"
  /\ out[2].text = <<"Checkmate!", "Black", "wins">>

\* C18: the two seats never hold the same connection, and a connection
\* that holds a seat keeps that very seat until it disconnects or reset
\* occurs.
C18_SeatsDistinctAndStable ==
  [][/\ players'.white # Null => players'.white # players'.black
     /\ \A side \in Colors :
          (/\ players[side] # Null
           /\ last'.ev # "reset"
           /\ ~(last'.ev = "disconnect" /\ last'.conn = players[side]))
            => (/\ players'[side] = players[side]
                /\ players'[Opponent(side)] # players[side])]_vars

\* A third connection has arrived while both seats were held: the two
\* players kept their seats.
C18_Witness ==
  /\ last.ev = "connection"
  /\ last.conn = 3
  /\ players = [white |-> 1, black |-> 2]
  /\ sockets[3] = "spectator"
  /\ chess.ply = 1

\* C19: no move, offerDraw, acceptDraw, resign or disconnect event of a
\* connection that holds no seat changes the position, the seats or either
\* remaining time.
C19_UnseatedEventsKeepGameData ==
  [][(/\ last'.ev \in {"move", "offerDraw", "acceptDraw", "resign", "disconnect"}
      /\ last'.conn # players.white
      /\ last'.conn # players.black)
       => UNCHANGED <<chess, players, timers>>]_vars

\* A spectator has resigned in a game in progress.
C19_Witness ==
  /\ last.ev = "resign"
  /\ last.conn \in Connected
  /\ sockets[last.conn] = "spectator"
  /\ players = [white |-> 1, black |-> 2]
  /\ chess.ply = 1
  /\ out[1].text = <<"Player", "resigns.", "Opponent", "wins!">>

\* The tick that took side's time to 0 has stopped every countdown and
\* broadcast timeUp(side).
ExpiredNow(side) ==
  /\ last.ev = "tick"
  /\ timers[side] = 0
  /\ timerIntervals = {}
  /\ Len(out) = 2
  /\ out[2].ev = "timeUp" /\ out[2].color = Letter(side) /\ out[2].to = Connected

\* A client event or reset has taken side's countdown away.
TakenAway(side) == timerIntervals # {side} /\ last.ev # "tick"

\* C20: a clock running for a side with time left leads, under fair ticks,
\* to that time reaching 0 with timeUp(side) broadcast and no clock running
\* at that moment, unless a client event or reset stops or switches the
\* clock first.
C20_RunningClockExpires ==
  \A side \in Colors :
    (timerIntervals = {side} /\ timers[side] > 0)
      ~> (ExpiredNow(side) \/ TakenAway(side))

\* Black's clock has run out in a game in which white had moved.
C20_Witness ==
  /\ ExpiredNow("black")
  /\ chess.ply = 1
  /\ players = [white |-> 1, black |-> 2]
  /\ timers.white = InitialSeconds

=============================================================================
